---- MODULE Spec2Model ----
(***************************************************************************)
(* Model of the FIRAClient example player: the match loop, the objective   *)
(* assignment and the differential-drive controller of src/main.py, with   *)
(* the geometry helpers and the client polls of src/bridge.py.             *)
(*                                                                         *)
(* Numbers.  Angles are integers counting units of pi/20, so pi is 20,     *)
(* pi/2 is 10 and pi/20 is 1; all angle arithmetic of the code is exact on *)
(* this grid.  A motor speed is a pair [c, k] standing for the real number *)
(* c + k*pi/40: Kp*error + Kd*(error - lastError) with error = e*pi/20 is  *)
(* (2*Kp*e + 2*Kd*(e - l)) * pi/40.  Field coordinates are integers in     *)
(* centimetres.  Floating-point rounding is not modelled.                  *)
(***************************************************************************)
EXTENDS Integers, Sequences, FiniteSets

\* ------------------------------------------------------------------ bounds
\* distance (cm) between neighbouring spots of the field grid used as input
FieldStep == 1
\* cap of the counter of consecutive non-RUNNING ticks
MaxStreak == 2
\* raw angles given to the geometry functions range over -MaxAngle..MaxAngle
MaxAngle == 80

\* ------------------------------------------------------- program constants
PI == 20
NUM_BOTS == 3
LENGTH == 85
WIDTH == 65
Kp == 20
KdTwice == 5
baseSpeed == 30
GAME_ON == 6
HALT == 7

Abs(n) == IF n < 0 THEN -n ELSE n

\* math.fmod: the remainder has the sign of the dividend
fmod(a, m) == IF a >= 0 THEN a % m ELSE -((-a) % m)

\* math.atan2 on the directions the field grid produces (axes and diagonals)
atan2(dy, dx) ==
    IF dy = 0 THEN (IF dx >= 0 THEN 0 ELSE PI)
    ELSE IF dx = 0 THEN (IF dy > 0 THEN PI \div 2 ELSE -(PI \div 2))
    ELSE IF dy > 0 THEN (IF dx > 0 THEN PI \div 4 ELSE 3 * (PI \div 4))
    ELSE (IF dx > 0 THEN -(PI \div 4) ELSE -(3 * (PI \div 4)))

\* ------------------------------------------------------ bridge.py geometry
convert_width(w) == WIDTH + w

convert_length(d) == LENGTH + d

convert_angle(a) ==
    LET angle == fmod(a, 2 * PI)
    IN  IF angle < -PI THEN angle + 2 * PI
        ELSE IF angle > PI THEN angle - 2 * PI
        ELSE angle

\* --------------------------------------------------------- main.py helpers
smallestAngleDiff(target, source) ==
    LET a == fmod(target + 2 * PI, 2 * PI) - fmod(source + 2 * PI, 2 * PI)
    IN  IF a > PI THEN a - 2 * PI
        ELSE IF a < -PI THEN a + 2 * PI
        ELSE a

\* ------------------------------------------------- speeds: c + k * pi / 40
Speed(c, k) == [c |-> c, k |-> k]

Zero == Speed(0, 0)

SpeedAdd(v, w) == Speed(v.c + w.c, v.k + w.k)

SpeedSub(v, w) == Speed(v.c - w.c, v.k - w.k)

SpeedNeg(v) == Speed(-v.c, -v.k)

\* v < w over the reals.  With d = v - w, d < 0 iff 40*d.c + d.k*pi < 0; the
\* sign is read off the enclosure 3.14159 < pi < 3.14160, which decides
\* every comparison whose |d.k| stays below 2000 unless it falls in the gap
\* between the two bounds, where the operator has no value.
SpeedLess(v, w) ==
    LET dc == 4000000 * (v.c - w.c)
        dk == v.k - w.k
        hi == dc + (IF dk >= 0 THEN 314160 * dk ELSE 314159 * dk)
        lo == dc + (IF dk >= 0 THEN 314159 * dk ELSE 314160 * dk)
    IN  IF hi < 0 THEN TRUE
        ELSE IF lo > 0 THEN FALSE
        ELSE IF dc = 0 /\ dk = 0 THEN FALSE
        ELSE CHOOSE b \in {} : TRUE

SpeedLeq(v, w) == ~SpeedLess(w, v)

\* ------------------------------------------------------------- the inputs
Indices == 0 .. NUM_BOTS - 1

Interrupts == 0 .. 7

\* raw headings reported by vision: below -pi, inside the range, above pi
RawAngles == {-3 * PI, -9, 2 * PI + 12}

\* raw ball positions: on the centre line, left of, at and right of centre
BallSpots == {<<-FieldStep, 0>>, <<0, 0>>, <<FieldStep, 0>>}

\* raw position of robot i: the robots stand on the line x = 0, one
\* FieldStep apart, robot 1 at the centre
RobotSpot(i) == <<0, (i - 1) * FieldStep>>

RawFields ==
    { [ball |-> b, angles |-> a] :
        b \in BallSpots, a \in [1 .. NUM_BOTS -> RawAngles] }

\* ------------------------------------------------------- bridge.py clients
\* Vision.get_robot
get_robot(raw, index) ==
    [x |-> convert_length(RobotSpot(index)[1]),
     y |-> convert_width(RobotSpot(index)[2]),
     a |-> convert_angle(raw.angles[index + 1])]

\* Vision.get_ball
get_ball(raw) ==
    [x |-> convert_length(raw.ball[1]), y |-> convert_width(raw.ball[2])]

\* Vision.get_field_data, the part of the field the loop reads: the ball
\* and the robots of the own team (main.py reads them as field["ball"] and
\* field["our_bots"]); the opponents' robots are never read
get_field_data(raw) ==
    [our_bots |-> [i \in 1 .. NUM_BOTS |-> get_robot(raw, i - 1)],
     ball |-> get_ball(raw)]

\* lib.referee_is_game_on of libfira.cpp
is_game_on(interrupt) == interrupt = GAME_ON

\* Referee.get_data; isNone marks the None result
get_data(interrupt) ==
    [isNone |-> FALSE, foul |-> interrupt, game_on |-> is_game_on(interrupt),
     is_game_halt |-> interrupt = 7]

NoRefData == [isNone |-> TRUE, foul |-> -1, game_on |-> FALSE,
              is_game_halt |-> FALSE]

\* Actuator.stop: the commands it sends
StopCommandsCoast ==
    [i \in 1 .. NUM_BOTS |->
        [op |-> "send", index |-> i - 1, left |-> Zero,
         right |-> Speed(baseSpeed, 0)]]

StopCommands ==
    [i \in 1 .. NUM_BOTS |->
        [op |-> "send", index |-> i - 1, left |-> Zero, right |-> Zero]]

\* Actuator.send_all: one send per entry of speeds, in list order
SendAll(speeds) ==
    [i \in 1 .. Len(speeds) |->
        [op |-> "send", index |-> speeds[i].index, left |-> speeds[i].left,
         right |-> speeds[i].right]]

Call(name) == [op |-> name, index |-> -1, left |-> Zero, right |-> Zero]

\* the polls that open every iteration of the loop
Polls ==
    <<Call("referee.update"), Call("referee.get_data"),
      Call("vision.update"), Call("vision.get_field_data")>>

\* -------------------------------------------------------- main.py strategy
main_strategy(field) ==
    [i \in 1 .. NUM_BOTS |->
        [index |-> i - 1, x |-> field.ball.x, y |-> field.ball.y]]

\* ------------------------------------------------------ main.py controller
NeedsReverseNever(error) == FALSE

\* the reverse-heading test of line 66
NeedsReverse(error) == Abs(error) > PI \div 2 + PI \div 20

NormalizeNone(error_speed) == error_speed

\* the clamp of lines 79-80
Normalize(error_speed) ==
    LET base == Speed(baseSpeed, 0)
        e1 == IF SpeedLess(error_speed, base) THEN error_speed ELSE base
    IN  IF SpeedLess(SpeedNeg(base), e1) THEN e1 ELSE SpeedNeg(base)

MotorSpeedsSlip(error_speed, reversed) ==
    LET base == Speed(baseSpeed, 0)
    IN  IF reversed
        THEN IF SpeedLess(Zero, error_speed)
             THEN [left |-> SpeedAdd(SpeedNeg(base), error_speed),
                   right |-> SpeedNeg(base)]
             ELSE [left |-> SpeedNeg(base),
                   right |-> SpeedSub(SpeedNeg(base), error_speed)]
        ELSE IF SpeedLess(Zero, error_speed)
             THEN [left |-> base, right |-> SpeedAdd(base, error_speed)]
             ELSE [left |-> SpeedAdd(base, error_speed), right |-> base]

\* the differential mix of lines 82-95
MotorSpeeds(error_speed, reversed) ==
    LET base == Speed(baseSpeed, 0)
    IN  IF reversed
        THEN IF SpeedLess(Zero, error_speed)
             THEN [left |-> SpeedAdd(SpeedNeg(base), error_speed),
                   right |-> SpeedNeg(base)]
             ELSE [left |-> SpeedNeg(base),
                   right |-> SpeedSub(SpeedNeg(base), error_speed)]
        ELSE IF SpeedLess(Zero, error_speed)
             THEN [left |-> base, right |-> SpeedSub(base, error_speed)]
             ELSE [left |-> SpeedAdd(base, error_speed), right |-> base]

\* the derivative memory the loop body reads at line 72
DerivativeMemoryReset(lastErr) == 0

DerivativeMemory(lastErr) == lastErr

\* one iteration of the loop of lines 42-98, for robot index i with
\* controller.lastError = lastErr on entry.  prev is the value of
\* controller.lastError that line 72 reads, error the value line 74 stores.
ControllerBody(i, our_bot, objective, lastErr) ==
    LET angle_rob0 == our_bot.a
        angle_obj == atan2(objective.y - our_bot.y, objective.x - our_bot.x)
        error0 == smallestAngleDiff(angle_rob0, angle_obj)
        reversed == NeedsReverse(error0)
        angle_rob == IF reversed THEN convert_angle(angle_rob0 + PI)
                     ELSE angle_rob0
        error == IF reversed THEN smallestAngleDiff(angle_rob, angle_obj)
                 ELSE error0
        prev == DerivativeMemory(lastErr)
        error_speed == Normalize(
            Speed(0, 2 * Kp * error + KdTwice * (error - prev)))
        motors == MotorSpeeds(error_speed, reversed)
    IN  [index |-> i, heading |-> our_bot.a, angle_obj |-> angle_obj,
         first_error |-> error0, reversed |-> reversed, prev |-> prev,
         error |-> error, error_speed |-> error_speed,
         left |-> motors.left, right |-> motors.right]

\* the loop of lines 42-98: the records of the iterations for indices 0..n-1
RECURSIVE ControllerLoop(_, _, _, _)
ControllerLoop(n, field, objectives, lastErr) ==
    IF n = 0 THEN <<>>
    ELSE LET before == ControllerLoop(n - 1, field, objectives, lastErr)
             entry == IF n = 1 THEN lastErr ELSE before[n - 1].error
         IN  Append(before,
                    ControllerBody(n - 1, field.our_bots[n], objectives[n],
                                   entry))

\* controller(field, objectives): the speeds list it returns
controller(run) ==
    [i \in 1 .. Len(run) |->
        [index |-> run[i].index, left |-> run[i].left, right |-> run[i].right]]

\* the branch of lines 120-134 taken for a referee record
Branch(ref) ==
    IF ref.game_on THEN "RUNNING"
    ELSE IF ref.foul # HALT THEN "STOPPED"
    ELSE "HALTED"

\* ------------------------------------------------------------------ state
VARIABLES
    lastError,      \* controller.lastError (0 stands for "not yet set")
    ref_data,       \* the referee record of the last iteration of the loop
    gotField,       \* whether its get_field_data returned a field, not None
    phase,          \* the branch it took
    calls,          \* the calls it made, in order
    trace,          \* the controller's loop iterations in it
    aborted,        \* the loop ended on an uncaught TypeError
    watch,          \* observer: one robot index, fixed at the start
    watchedStored,  \* observer: error stored by the last execution for watch
    streak,         \* observer: non-RUNNING ticks in a row up to (when
                    \* stopped) or just before (when running) the last tick
    argA, argB, result, applied     \* geometry function under test

loopVars == <<lastError, ref_data, gotField, phase, calls, trace, aborted,
              watch, watchedStored, streak>>

geomVars == <<argA, argB, result, applied>>

vars == <<lastError, ref_data, gotField, phase, calls, trace, aborted,
          watch, watchedStored, streak, argA, argB, result, applied>>

Stops == {"STOPPED", "HALTED"}

LoopInit ==
    /\ lastError = 0
    /\ ref_data = NoRefData
    /\ gotField = FALSE
    /\ phase = "START"
    /\ calls = <<>>
    /\ trace = <<>>
    /\ aborted = FALSE
    /\ watchedStored = 0
    /\ streak = 0

GeomIdle ==
    /\ argA = 0
    /\ argB = 0
    /\ result = 0
    /\ applied = "none"

Init ==
    /\ LoopInit
    /\ watch = 0
    /\ GeomIdle

\* ------------------------------------------------------------- match loop
\* referee.get_data() returned None: line 120 subscripts None and raises
TickNoRefData ==
    /\ ~aborted
    /\ \E got \in BOOLEAN :
        /\ ref_data' = NoRefData
        /\ gotField' = got
        /\ phase' = "ABORTED"
        /\ calls' = Polls
        /\ trace' = <<>>
        /\ aborted' = TRUE
    /\ UNCHANGED <<lastError, watch, watchedStored, streak>>
    /\ UNCHANGED geomVars

\* game on, vision.get_field_data() returned None: main_strategy, line 10,
\* subscripts None and raises
TickNoField ==
    /\ ~aborted
    /\ \E interrupt \in Interrupts :
        /\ Branch(get_data(interrupt)) = "RUNNING"
        /\ ref_data' = get_data(interrupt)
        /\ gotField' = FALSE
        /\ phase' = "ABORTED"
        /\ calls' = Polls \o <<Call("main_strategy")>>
        /\ trace' = <<>>
        /\ aborted' = TRUE
    /\ UNCHANGED <<lastError, watch, watchedStored, streak>>
    /\ UNCHANGED geomVars

\* game on: strategy, controller, send_all (lines 120-126)
TickRunning ==
    /\ ~aborted
    /\ \E interrupt \in Interrupts, rawField \in RawFields :
        LET field == get_field_data(rawField)
            objectives == main_strategy(field)
            run == ControllerLoop(NUM_BOTS, field, objectives, lastError)
        IN  /\ Branch(get_data(interrupt)) = "RUNNING"
            /\ ref_data' = get_data(interrupt)
            /\ gotField' = TRUE
            /\ phase' = "RUNNING"
            /\ trace' = run
            /\ lastError' = run[NUM_BOTS].error
            /\ watchedStored' = run[watch + 1].error
            /\ calls' = Polls
                        \o <<Call("main_strategy"), Call("controller")>>
                        \o SendAll(controller(run))
    /\ streak' = IF phase \in Stops THEN streak ELSE 0
    /\ UNCHANGED <<aborted, watch>>
    /\ UNCHANGED geomVars

\* a foul other than HALT: actuator.stop() (lines 128-130); field is not read
TickFoul ==
    /\ ~aborted
    /\ \E interrupt \in Interrupts, got \in BOOLEAN :
        /\ Branch(get_data(interrupt)) = "STOPPED"
        /\ ref_data' = get_data(interrupt)
        /\ gotField' = got
        /\ phase' = "STOPPED"
        /\ calls' = Polls \o StopCommands
        /\ trace' = <<>>
    /\ streak' = IF phase \in Stops
                 THEN (IF streak < MaxStreak THEN streak + 1 ELSE streak)
                 ELSE 1
    /\ UNCHANGED <<lastError, aborted, watch, watchedStored>>
    /\ UNCHANGED geomVars

\* HALT: actuator.stop() (lines 132-134); field is not read
TickHalt ==
    /\ ~aborted
    /\ \E interrupt \in Interrupts, got \in BOOLEAN :
        /\ Branch(get_data(interrupt)) = "HALTED"
        /\ ref_data' = get_data(interrupt)
        /\ gotField' = got
        /\ phase' = "HALTED"
        /\ calls' = Polls \o StopCommands
        /\ trace' = <<>>
    /\ streak' = IF phase \in Stops
                 THEN (IF streak < MaxStreak THEN streak + 1 ELSE streak)
                 ELSE 1
    /\ UNCHANGED <<lastError, aborted, watch, watchedStored>>
    /\ UNCHANGED geomVars

Next ==
    \/ TickNoRefData
    \/ TickNoField
    \/ TickRunning
    \/ TickFoul
    \/ TickHalt

Spec == Init /\ [][Next]_vars

\* the same loop, observed at every robot index
WatchInit ==
    /\ LoopInit
    /\ watch \in Indices
    /\ GeomIdle

WatchSpec == WatchInit /\ [][Next]_vars

\* ------------------------------------------- the geometry functions alone
Angles == -MaxAngle .. MaxAngle

GeomInit ==
    /\ LoopInit
    /\ watch = 0
    /\ argA \in Angles
    /\ argB \in Angles
    /\ result = 0
    /\ applied = "none"

\* smallestAngleDiff(target = argA, source = argB)
ApplySmallestAngleDiff ==
    /\ applied = "none"
    /\ result' = smallestAngleDiff(argA, argB)
    /\ applied' = "smallestAngleDiff"
    /\ UNCHANGED <<argA, argB>>
    /\ UNCHANGED loopVars

\* convert_angle(a = argA)
ApplyConvertAngle ==
    /\ applied = "none"
    /\ result' = convert_angle(argA)
    /\ applied' = "convert_angle"
    /\ UNCHANGED <<argA, argB>>
    /\ UNCHANGED loopVars

GeomNext ==
    \/ ApplySmallestAngleDiff
    \/ ApplyConvertAngle

GeomSpec == GeomInit /\ [][GeomNext]_vars

\* ------------------------------------------------------------- properties
IsSend(c) == c.op = "send"

\* the actuator sends of the last tick, in order
Sends == SelectSeq(calls, IsSend)

Ticked == phase # "START"

HalfTurn == PI \div 2 + PI \div 20

\* C1: the derivative term the controller uses for a robot index is the
\* error stored by the most recent earlier execution for that same index,
\* and 0 on the first execution for it.
C1_DerivativeOfSameIndex ==
    [][phase' = "RUNNING" => trace'[watch + 1].prev = watchedStored]_vars

\* C2: smallestAngleDiff(target, source) is the value d with -pi < d <= pi
\* for which source + d is congruent to target modulo 2*pi.
C2_SmallestAngleDiffCanonical ==
    applied = "smallestAngleDiff" =>
        /\ -PI < result
        /\ result <= PI
        /\ (argB + result - argA) % (2 * PI) = 0

\* C3: in a tick whose interrupt type is HALT every robot index is sent
\* (0, 0), and neither the objective assignment nor the controller runs.
C3_HaltStopsEveryRobot ==
    (Ticked /\ ~ref_data.isNone /\ ref_data.foul = HALT) =>
        /\ Len(Sends) = NUM_BOTS
        /\ \A i \in 1 .. Len(Sends) :
              /\ Sends[i].index = i - 1
              /\ Sends[i].left = Zero
              /\ Sends[i].right = Zero
        /\ \A j \in 1 .. Len(calls) :
              calls[j].op \notin {"main_strategy", "controller"}
        /\ trace = <<>>

C3_Witness ==
    /\ phase = "HALTED"
    /\ ref_data.foul = HALT
    /\ gotField
    /\ lastError # 0
    /\ Len(Sends) = NUM_BOTS

\* C4: a tick in which the referee poll or the vision poll yields None sends
\* (0, 0) to every robot and the loop goes on; it never aborts.
C4_NoDataFallsBackToStop ==
    (Ticked /\ (ref_data.isNone \/ ~gotField)) =>
        /\ ~aborted
        /\ Sends = StopCommands

\* C5: a STOPPED or HALTED tick leaves the stored last heading error as it
\* was, and the first controller execution of a RUNNING tick takes its
\* derivative term from the value stored before that tick, however many
\* non-RUNNING ticks came in between.
C5_StoppageKeepsLastError ==
    [][/\ phase' \in Stops => lastError' = lastError
       /\ phase' = "RUNNING" => trace'[1].prev = lastError]_vars

C5_Witness ==
    /\ phase = "RUNNING"
    /\ streak = MaxStreak
    /\ trace[1].prev # 0
    /\ trace[1].error # trace[1].prev

\* C6 as stated: when the reverse-heading policy is triggered both wheel
\* speeds are negative and of magnitude at most baseSpeed.
C6_ReversedWheelsNegative ==
    \A i \in 1 .. Len(trace) :
        trace[i].reversed =>
            /\ SpeedLess(trace[i].left, Zero)
            /\ SpeedLess(trace[i].right, Zero)
            /\ SpeedLeq(Speed(-baseSpeed, 0), trace[i].left)
            /\ SpeedLeq(Speed(-baseSpeed, 0), trace[i].right)

\* C6 amended: when the reverse-heading policy is triggered both wheel
\* speeds are at most 0 and of magnitude at most baseSpeed.
C6_ReversedWheelsNotPositive ==
    \A i \in 1 .. Len(trace) :
        trace[i].reversed =>
            /\ SpeedLeq(trace[i].left, Zero)
            /\ SpeedLeq(trace[i].right, Zero)
            /\ SpeedLeq(Speed(-baseSpeed, 0), trace[i].left)
            /\ SpeedLeq(Speed(-baseSpeed, 0), trace[i].right)

\* a robot with the target directly behind it, after earlier executions
C6_Witness ==
    \E i \in 1 .. Len(trace) :
        /\ trace[i].reversed
        /\ Abs(trace[i].first_error) = PI
        /\ trace[i].prev # 0

\* C7: every wheel command of the controller lies in
\* [-2*baseSpeed, 2*baseSpeed], and in [-baseSpeed, baseSpeed] when the
\* reverse-heading policy is not triggered.
C7_WheelCommandsBounded ==
    \A i \in 1 .. Len(trace) :
        /\ SpeedLeq(Speed(-2 * baseSpeed, 0), trace[i].left)
        /\ SpeedLeq(trace[i].left, Speed(2 * baseSpeed, 0))
        /\ SpeedLeq(Speed(-2 * baseSpeed, 0), trace[i].right)
        /\ SpeedLeq(trace[i].right, Speed(2 * baseSpeed, 0))
        /\ ~trace[i].reversed =>
              /\ SpeedLeq(Speed(-baseSpeed, 0), trace[i].left)
              /\ SpeedLeq(trace[i].left, Speed(baseSpeed, 0))
              /\ SpeedLeq(Speed(-baseSpeed, 0), trace[i].right)
              /\ SpeedLeq(trace[i].right, Speed(baseSpeed, 0))

\* a saturated correction on the forward branch, and a reversed robot
C7_Witness ==
    /\ \E i \in 1 .. Len(trace) :
          /\ ~trace[i].reversed
          /\ trace[i].prev # 0
          /\ (trace[i].left = Zero \/ trace[i].right = Zero)
    /\ \E i \in 1 .. Len(trace) : trace[i].reversed

\* C8: convert_angle returns a value in (-pi, pi] congruent to the raw
\* angle modulo 2*pi; it never returns -pi.
C8_ConvertAngleHalfOpen ==
    applied = "convert_angle" =>
        /\ -PI < result
        /\ result <= PI
        /\ (result - argA) % (2 * PI) = 0

\* C9: in every tick the actuator's send is invoked exactly once for each
\* robot index, in ascending order, after the referee and vision polls.
C9_OneSendPerRobotAfterPolls ==
    Ticked =>
        /\ Len(Sends) = NUM_BOTS
        /\ \A i \in 1 .. Len(Sends) : Sends[i].index = i - 1
        /\ Len(calls) >= Len(Polls)
        /\ SubSeq(calls, 1, Len(Polls)) = Polls

\* C10: with headings and target bearings in [-pi, pi], the error every
\* controller execution stores has magnitude at most pi/2 + pi/20.
C10_StoredErrorBounded ==
    /\ Abs(lastError) <= HalfTurn
    /\ \A i \in 1 .. Len(trace) :
          (Abs(trace[i].heading) <= PI /\ Abs(trace[i].angle_obj) <= PI) =>
              Abs(trace[i].error) <= HalfTurn

\* the bound is met without reversal, and a reversed robot stores too
C10_Witness ==
    /\ \E i \in 1 .. Len(trace) :
          ~trace[i].reversed /\ Abs(trace[i].error) = HalfTurn
    /\ \E i \in 1 .. Len(trace) :
          trace[i].reversed /\ trace[i].error # 0

====
